---------------------------- MODULE Spec2Model ----------------------------
(***************************************************************************)
(* State-machine model of the React example components of the repository:  *)
(*   - UserFetcher  (data fetching effect keyed on userId)                  *)
(*   - SearchInput  (debounced search term, 500ms quiet period)             *)
(*   - AutoCounter  (setInterval id kept in a ref)                          *)
(*   - UserProfile  (fetch().then() chain keyed on the userId prop)         *)
(*   - Counter      (functional state updates)                              *)
(*   - createCounter (closure counters of the JavaScript notes)             *)
(*   - ThemeToggler (theme state provided through ThemeContext)             *)
(* The examples are independent components that share no state; a         *)
(* behaviour renders one of them, runs its effects, handles its events and  *)
(* finally may unmount it.  The updater functions of UserFetcher's Next     *)
(* User and Previous User buttons are also exercised on their own, from     *)
(* every userId, in CycleSpec.                                              *)
(*                                                                         *)
(* Time is counted in milliseconds and advances in steps of 100ms.         *)
(***************************************************************************)
EXTENDS Integers, Sequences, FiniteSets, TLC

\* ---------------------------------------------------------------- bounds
\* number of runs of UserFetcher's fetch effect (mount + userId changes)
MaxAttempts == 3
\* number of onChange events delivered to SearchInput
MaxChanges == 3
\* the clock stops advancing at this time (ms)
MaxTime == 1300
\* number of interval callbacks of AutoCounter that are run
MaxCount == 2
\* number of setInterval calls of AutoCounter
MaxStarts == 2
\* number of Stop clicks of AutoCounter
MaxStops == 2
\* number of clicks on Counter's buttons
MaxClicks == 4
\* number of createCounter() calls
MaxCounters == 2
\* number of calls of one closure counter
MaxCalls == 2
\* number of applications of the userId updaters in CycleSpec
MaxPresses == 10
\* number of Toggle Theme clicks
MaxToggles == 3

\* ------------------------------------------------------ program constants
\* setTimeout(..., 500)
Delay == 500
\* "Cycle through users 1-10"
FirstUser == 1
LastUser == 10

Components ==
    {"UserFetcher", "SearchInput", "AutoCounter", "UserProfile", "Counter",
     "createCounter", "ThemeToggler"}

\* values typed into the search box
Terms == {"", "a", "ab", "abc"}

\* reasons for which fetchUser's try block throws
Reasons == {"network", "http", "parse"}

VARIABLES
    phase,               \* component -> "init" | "mounted" | "unmounted"
    \* ---- UserFetcher
    userId,              \* useState(1)
    userData,            \* useState(null)
    loading,             \* useState(true)
    error,               \* useState(null)
    attempts,            \* the fetchUser() calls, in creation order
    applied,             \* history: attempts whose data reached setUserData, in order
    \* ---- SearchInput
    searchTerm,          \* useState('')
    debouncedSearchTerm, \* useState('')
    timers,              \* pending setTimeout timers
    now,                 \* the clock (ms)
    changes,             \* history: <<time, value>> of every onChange
    searches,            \* <<time, term>> of every 'Performing search for:'
    \* ---- AutoCounter
    acCount,             \* useState(0)
    intervalIdRef,       \* useRef(null).current
    intervals,           \* ids of the active setInterval timers
    intervalsMade,       \* number of setInterval calls so far (ids are 1, 2, ...)
    stopCalls,           \* history: for each stopCounter() call, whether an interval was running
    \* ---- UserProfile
    upUserId,            \* the userId prop
    user,                \* useState(null)
    upFetches,           \* the fetch(...).then(...).then(setUser) chains, in creation order
    \* ---- Counter
    count,               \* useState(0)
    updateQueue,         \* state updates not yet applied by a re-render
    clicks,              \* history: <<number of Increment clicks, number of Decrement clicks>>
    lastBatch,           \* history: number of updates applied by the last re-render
    \* ---- createCounter
    counters,            \* the count variable of each closure, in creation order
    calls,               \* history: number of calls of each closure
    \* ---- userId updaters
    idTrail,             \* history: the userId before the first press and after every press
    presses,             \* history: "next" | "prev" for every press
    \* ---- ThemeToggler
    theme,               \* useState('light')
    themeQueue,          \* state updates not yet applied by a re-render
    providerValue,       \* the value of ThemeContext (createContext('light'), then the Provider's value)
    buttonTheme,         \* the theme ThemedButton read at its last render
    toggleClicks,        \* history: number of Toggle Theme clicks
    themeBatch           \* history: number of updates applied by the last re-render

ufVars == <<userId, userData, loading, error, attempts, applied>>
siVars == <<searchTerm, debouncedSearchTerm, timers, now, changes, searches>>
acVars == <<acCount, intervalIdRef, intervals, intervalsMade, stopCalls>>
upVars == <<upUserId, user, upFetches>>
ctVars == <<count, updateQueue, clicks, lastBatch>>
ccVars == <<counters, calls>>
cyVars == <<idTrail, presses>>
ttVars == <<theme, themeQueue, providerValue, buttonTheme, toggleClicks, themeBatch>>
vars == <<phase, userId, userData, loading, error, attempts, applied,
          searchTerm, debouncedSearchTerm, timers, now, changes, searches,
          acCount, intervalIdRef, intervals, intervalsMade, stopCalls,
          upUserId, user, upFetches, count, updateQueue, clicks, lastBatch,
          counters, calls, idTrail, presses,
          theme, themeQueue, providerValue, buttonTheme, toggleClicks,
          themeBatch>>

\* the state of all the components but one
ufRest == <<siVars, acVars, upVars, ctVars, ccVars, cyVars, ttVars>>
siRest == <<ufVars, acVars, upVars, ctVars, ccVars, cyVars, ttVars>>
acRest == <<ufVars, siVars, upVars, ctVars, ccVars, cyVars, ttVars>>
upRest == <<ufVars, siVars, acVars, ctVars, ccVars, cyVars, ttVars>>
ctRest == <<ufVars, siVars, acVars, upVars, ccVars, cyVars, ttVars>>
ccRest == <<ufVars, siVars, acVars, upVars, ctVars, cyVars, ttVars>>
cyRest == <<phase, ufVars, siVars, acVars, upVars, ctVars, ccVars, ttVars>>
ttRest == <<ufVars, siVars, acVars, upVars, ctVars, ccVars, cyVars>>

\* intervalIdRef.current = null
NoInterval == 0

Null == [kind |-> "null"]
Data(uid) == [kind |-> "user", id |-> uid]
Err(reason) == [kind |-> "error", message |-> reason]

Last(s) == s[Len(s)]

\* ThemedButton has not rendered yet
NotRendered == "none"

\* the state after construction, but for the history of the userId updaters
InitComponents ==
    /\ phase = [c \in Components |-> "init"]
    /\ userId = 1
    /\ userData = Null
    /\ loading = TRUE
    /\ error = Null
    /\ attempts = <<>>
    /\ applied = <<>>
    /\ searchTerm = ""
    /\ debouncedSearchTerm = ""
    /\ timers = {}
    /\ now = 0
    /\ changes = <<>>
    /\ searches = <<>>
    /\ acCount = 0
    /\ intervalIdRef = NoInterval
    /\ intervals = {}
    /\ intervalsMade = 0
    /\ stopCalls = <<>>
    /\ upUserId = 1
    /\ user = Null
    /\ upFetches = <<>>
    /\ count = 0
    /\ updateQueue = <<>>
    /\ clicks = <<0, 0>>
    /\ lastBatch = 0
    /\ counters = <<>>
    /\ calls = <<>>
    /\ theme = "light"
    /\ themeQueue = <<>>
    /\ providerValue = "light"
    /\ buttonTheme = NotRendered
    /\ toggleClicks = 0
    /\ themeBatch = 0

Init ==
    /\ InitComponents
    /\ idTrail = <<>>
    /\ presses = <<>>

NothingRendered == \A c \in Components : phase[c] = "init"
Mounted(c) == phase[c] = "mounted"

\* ======================================================== UserFetcher

\* A state setter called on an unmounted component is a no-op.
SetState(cur, new) == IF Mounted("UserFetcher") THEN new ELSE cur

\* the cleanup returned by the effect: it only logs
EffectCleanup(as) ==
    IF as = <<>> THEN as
    ELSE [as EXCEPT ![Len(as)].cleaned = TRUE]

\* fetchUser(): the call is made, the fetch is in flight
StartFetch(as, uid) ==
    Append(as, [userId |-> uid, status |-> "fetching", cleaned |-> FALSE])

\* mutant: the effect does not clear the previous data
RunEffectKeepsData(uid) ==
    /\ loading' = TRUE
    /\ userData' = userData
    /\ error' = Null
    /\ attempts' = StartFetch(EffectCleanup(attempts), uid)

\* mutant: the effect does not clear the previous error
RunEffectKeepsError(uid) ==
    /\ loading' = TRUE
    /\ userData' = Null
    /\ error' = error
    /\ attempts' = StartFetch(EffectCleanup(attempts), uid)


\* the body of the fetch effect for the userId of the render it belongs to
RunEffect(uid) ==
    /\ loading' = TRUE
    /\ userData' = Null
    /\ error' = Null
    /\ attempts' = StartFetch(EffectCleanup(attempts), uid)

UserFetcherMount ==
    /\ NothingRendered
    /\ phase' = [phase EXCEPT !["UserFetcher"] = "mounted"]
    /\ RunEffect(userId)
    /\ UNCHANGED <<userId, applied>>
    /\ UNCHANGED ufRest

\* mutant: Next User does not wrap around
NextUserIdNoWrap(prevId) == prevId + 1

NextUserId(prevId) == IF prevId < LastUser THEN prevId + 1 ELSE FirstUser
\* mutant: Previous User does not wrap around
PrevUserIdNoWrap(prevId) == prevId - 1

PrevUserId(prevId) == IF prevId > FirstUser THEN prevId - 1 ELSE LastUser

\* a click changes userId; the re-render runs the old effect's cleanup and
\* then the effect again
SetUserId(newId) ==
    /\ userId' = newId
    /\ IF newId # userId
         THEN RunEffect(newId)
         ELSE UNCHANGED <<loading, userData, error, attempts>>

HandleNextUser ==
    /\ Mounted("UserFetcher")
    /\ Len(attempts) < MaxAttempts
    /\ SetUserId(NextUserId(userId))
    /\ UNCHANGED <<phase, applied>>
    /\ UNCHANGED ufRest

HandlePrevUser ==
    /\ Mounted("UserFetcher")
    /\ Len(attempts) < MaxAttempts
    /\ SetUserId(PrevUserId(userId))
    /\ UNCHANGED <<phase, applied>>
    /\ UNCHANGED ufRest

\* mutant: the catch block swallows the error
CatchFinallySwallows(i, reason) ==
    /\ attempts' = [attempts EXCEPT ![i].status = "failed"]
    /\ loading' = SetState(loading, FALSE)
    /\ UNCHANGED <<userData, error, applied>>

\* catch (e) { setError(e) } finally { setLoading(false) }
CatchFinally(i, reason) ==
    /\ attempts' = [attempts EXCEPT ![i].status = "failed"]
    /\ error' = SetState(error, Err(reason))
    /\ loading' = SetState(loading, FALSE)
    /\ UNCHANGED <<userData, applied>>

\* mutant: a rejected fetch is retried
FetchRejectsRetries(i) ==
    /\ attempts[i].status = "fetching"
    /\ attempts' = IF Len(attempts) < MaxAttempts
                     THEN StartFetch([attempts EXCEPT ![i].status = "failed"],
                                     attempts[i].userId)
                     ELSE [attempts EXCEPT ![i].status = "failed"]
    /\ error' = SetState(error, Err("network"))
    /\ loading' = SetState(loading, FALSE)
    /\ UNCHANGED <<userData, applied>>
    /\ UNCHANGED <<phase, userId>>
    /\ UNCHANGED ufRest

\* await fetch(...) rejects
FetchRejects(i) ==
    /\ attempts[i].status = "fetching"
    /\ CatchFinally(i, "network")
    /\ UNCHANGED <<phase, userId>>
    /\ UNCHANGED ufRest

\* await fetch(...) resolves with a response; !response.ok throws
FetchResponds(i, ok) ==
    /\ attempts[i].status = "fetching"
    /\ IF ok
         THEN /\ attempts' = [attempts EXCEPT ![i].status = "parsing"]
              /\ UNCHANGED <<userData, error, loading, applied>>
         ELSE CatchFinally(i, "http")
    /\ UNCHANGED <<phase, userId>>
    /\ UNCHANGED ufRest

\* await response.json() resolves: setUserData(data), then finally
JsonResolves(i) ==
    /\ attempts[i].status = "parsing"
    /\ attempts' = [attempts EXCEPT ![i].status = "resolved"]
    /\ userData' = SetState(userData, Data(attempts[i].userId))
    /\ loading' = SetState(loading, FALSE)
    /\ applied' = SetState(applied, Append(applied, i))
    /\ UNCHANGED <<phase, userId, error>>
    /\ UNCHANGED ufRest

\* mutant: the rejection handler also runs for an attempt that has resolved
JsonRejectsAnyTime(i) ==
    /\ attempts[i].status \in {"parsing", "resolved"}
    /\ CatchFinally(i, "parse")
    /\ UNCHANGED <<phase, userId>>
    /\ UNCHANGED ufRest

\* await response.json() rejects
JsonRejects(i) ==
    /\ attempts[i].status = "parsing"
    /\ CatchFinally(i, "parse")
    /\ UNCHANGED <<phase, userId>>
    /\ UNCHANGED ufRest

UserFetcherUnmount ==
    /\ Mounted("UserFetcher")
    /\ phase' = [phase EXCEPT !["UserFetcher"] = "unmounted"]
    /\ attempts' = EffectCleanup(attempts)
    /\ UNCHANGED <<userId, userData, loading, error, applied>>
    /\ UNCHANGED ufRest

\* ======================================================== SearchInput

\* mutant: the timer is started without the delay
SetTimeoutNoDelay(term) == [due |-> now, term |-> term]

\* setTimeout(() => setDebouncedSearchTerm(searchTerm), 500)
SetTimeout(term) == [due |-> now + Delay, term |-> term]

\* mutant: the cleanup does not cancel the timer
ClearTimeoutNoop(ts, timerId) == ts

\* clearTimeout(timerId)
ClearTimeout(ts, timerId) == ts \ {timerId}

\* the timer owned by the effect of the current render
TimerOf(term) == {t \in timers : t.term = term}

\* the cleanup of the debounce effect of the render with searchTerm = term
DebounceCleanup(ts, term) ==
    IF TimerOf(term) = {} THEN ts
    ELSE ClearTimeout(ts, CHOOSE t \in TimerOf(term) : TRUE)

\* mutant: the second effect searches without the if (debouncedSearchTerm) guard
SearchEffectNoGuard(log, term) == Append(log, <<now, term>>)


\* the second effect: if (debouncedSearchTerm) console.log('Performing search for:', ...)
SearchEffect(log, term) ==
    IF term # "" THEN Append(log, <<now, term>>) ELSE log

SearchInputMount ==
    /\ NothingRendered
    /\ phase' = [phase EXCEPT !["SearchInput"] = "mounted"]
    /\ timers' = timers \cup {SetTimeout(searchTerm)}
    /\ searches' = SearchEffect(searches, debouncedSearchTerm)
    /\ UNCHANGED <<searchTerm, debouncedSearchTerm, now, changes>>
    /\ UNCHANGED siRest

\* mutant: the search is made directly in the change handler
OnChangeSearches(v) ==
    /\ Mounted("SearchInput")
    /\ Len(changes) < MaxChanges
    /\ v # searchTerm
    /\ searchTerm' = v
    /\ timers' = DebounceCleanup(timers, searchTerm) \cup {SetTimeout(v)}
    /\ changes' = Append(changes, <<now, v>>)
    /\ searches' = SearchEffect(searches, v)
    /\ UNCHANGED <<debouncedSearchTerm, now>>
    /\ UNCHANGED <<phase>>
    /\ UNCHANGED siRest

\* onChange={e => setSearchTerm(e.target.value)}: the re-render runs the
\* debounce effect's cleanup and then the effect again
OnChange(v) ==
    /\ Mounted("SearchInput")
    /\ Len(changes) < MaxChanges
    /\ v # searchTerm
    /\ searchTerm' = v
    /\ timers' = DebounceCleanup(timers, searchTerm) \cup {SetTimeout(v)}
    /\ changes' = Append(changes, <<now, v>>)
    /\ UNCHANGED <<debouncedSearchTerm, now, searches>>
    /\ UNCHANGED <<phase>>
    /\ UNCHANGED siRest

\* mutant: the search effect runs at every expiry, also when the debounced
\* value did not change
TimerFiresNoBailout(t) ==
    /\ t \in timers
    /\ t.due <= now
    /\ timers' = timers \ {t}
    /\ IF Mounted("SearchInput")
         THEN /\ debouncedSearchTerm' = t.term
              /\ searches' = SearchEffect(searches, t.term)
         ELSE UNCHANGED <<debouncedSearchTerm, searches>>
    /\ UNCHANGED <<searchTerm, now, changes>>
    /\ UNCHANGED <<phase>>
    /\ UNCHANGED siRest

\* a timer expires: its callback calls setDebouncedSearchTerm(term); when the
\* value changes, the re-render runs the second effect
TimerFires(t) ==
    /\ t \in timers
    /\ t.due <= now
    /\ timers' = timers \ {t}
    /\ IF Mounted("SearchInput") /\ t.term # debouncedSearchTerm
         THEN /\ debouncedSearchTerm' = t.term
              /\ searches' = SearchEffect(searches, t.term)
         ELSE UNCHANGED <<debouncedSearchTerm, searches>>
    /\ UNCHANGED <<searchTerm, now, changes>>
    /\ UNCHANGED <<phase>>
    /\ UNCHANGED siRest

\* 100ms pass; a due timer fires before the clock moves on
Tick ==
    /\ Mounted("SearchInput")
    /\ now + 100 <= MaxTime
    /\ \A t \in timers : t.due > now
    /\ now' = now + 100
    /\ UNCHANGED <<searchTerm, debouncedSearchTerm, timers, changes, searches>>
    /\ UNCHANGED <<phase>>
    /\ UNCHANGED siRest

\* mutant: the unmount does not run the effect's cleanup
SearchInputUnmountNoCleanup ==
    /\ Mounted("SearchInput")
    /\ phase' = [phase EXCEPT !["SearchInput"] = "unmounted"]
    /\ UNCHANGED <<searchTerm, debouncedSearchTerm, timers, now, changes, searches>>
    /\ UNCHANGED siRest

\* the unmount runs the cleanup of the debounce effect
SearchInputUnmount ==
    /\ Mounted("SearchInput")
    /\ phase' = [phase EXCEPT !["SearchInput"] = "unmounted"]
    /\ timers' = DebounceCleanup(timers, searchTerm)
    /\ UNCHANGED <<searchTerm, debouncedSearchTerm, now, changes, searches>>
    /\ UNCHANGED siRest

\* ======================================================== AutoCounter

AutoCounterMount ==
    /\ NothingRendered
    /\ phase' = [phase EXCEPT !["AutoCounter"] = "mounted"]
    /\ UNCHANGED acVars
    /\ UNCHANGED acRest

\* startCounter: setInterval unless an interval id is already stored
StartCounter ==
    /\ Mounted("AutoCounter")
    /\ intervalsMade < MaxStarts \/ intervalIdRef # NoInterval
    /\ IF intervalIdRef = NoInterval
         THEN /\ intervalsMade' = intervalsMade + 1
              /\ intervals' = intervals \cup {intervalsMade + 1}
              /\ intervalIdRef' = intervalsMade + 1
         ELSE UNCHANGED <<intervalsMade, intervals, intervalIdRef>>
    /\ UNCHANGED <<acCount, stopCalls>>
    /\ UNCHANGED phase
    /\ UNCHANGED acRest

\* the interval callback: setCount(prevCount => prevCount + 1)
IntervalFires(id) ==
    /\ id \in intervals
    /\ acCount < MaxCount
    /\ acCount' = IF Mounted("AutoCounter") THEN acCount + 1 ELSE acCount
    /\ UNCHANGED <<intervalIdRef, intervals, intervalsMade, stopCalls>>
    /\ UNCHANGED phase
    /\ UNCHANGED acRest

\* mutant: stopCounter clears the interval but keeps the id in the ref
StopCounterKeepsRef ==
    /\ stopCalls' = Append(stopCalls, intervalIdRef # NoInterval)
    /\ intervals' = intervals \ {intervalIdRef}
    /\ UNCHANGED <<intervalIdRef, acCount, intervalsMade>>

\* stopCounter: clearInterval and reset the ref, if an interval id is stored
StopCounter ==
    /\ stopCalls' = Append(stopCalls, intervalIdRef # NoInterval)
    /\ IF intervalIdRef # NoInterval
         THEN /\ intervals' = intervals \ {intervalIdRef}
              /\ intervalIdRef' = NoInterval
         ELSE UNCHANGED <<intervals, intervalIdRef>>
    /\ UNCHANGED <<acCount, intervalsMade>>

\* <button onClick={stopCounter}>Stop</button>
StopClick ==
    /\ Mounted("AutoCounter")
    /\ Len(stopCalls) < MaxStops
    /\ StopCounter
    /\ UNCHANGED phase
    /\ UNCHANGED acRest

\* <button onClick={() => setCount(0)}>Reset</button>
ResetClick ==
    /\ Mounted("AutoCounter")
    /\ acCount' = 0
    /\ UNCHANGED <<intervalIdRef, intervals, intervalsMade, stopCalls>>
    /\ UNCHANGED phase
    /\ UNCHANGED acRest

\* cleanup on unmount: () => stopCounter()
AutoCounterUnmount ==
    /\ Mounted("AutoCounter")
    /\ phase' = [phase EXCEPT !["AutoCounter"] = "unmounted"]
    /\ StopCounter
    /\ UNCHANGED acRest

\* ======================================================== UserProfile

\* values of the userId prop
ProfileIds == {1, 2}

\* a state setter of UserProfile called after the unmount is a no-op
SetUser(cur, new) == IF Mounted("UserProfile") THEN new ELSE cur

\* the effect: fetch(`/api/users/${userId}`).then(...).then(setUser)
StartProfileFetch(fs, uid) ==
    Append(fs, [userId |-> uid, status |-> "fetching", ok |-> TRUE])

UserProfileMount(uid) ==
    /\ NothingRendered
    /\ phase' = [phase EXCEPT !["UserProfile"] = "mounted"]
    /\ upUserId' = uid
    /\ upFetches' = StartProfileFetch(upFetches, uid)
    /\ UNCHANGED user
    /\ UNCHANGED upRest

\* the parent passes another userId: the effect runs again
UserProfileSetUserId(uid) ==
    /\ Mounted("UserProfile")
    /\ Len(upFetches) < MaxAttempts
    /\ uid # upUserId
    /\ upUserId' = uid
    /\ upFetches' = StartProfileFetch(upFetches, uid)
    /\ UNCHANGED user
    /\ UNCHANGED phase
    /\ UNCHANGED upRest

\* fetch(...) rejects: the chain has no catch, the rejection is unhandled
ProfileFetchRejects(i) ==
    /\ upFetches[i].status = "fetching"
    /\ upFetches' = [upFetches EXCEPT ![i].status = "unhandled"]
    /\ UNCHANGED <<upUserId, user>>
    /\ UNCHANGED phase
    /\ UNCHANGED upRest

\* fetch(...) resolves with a response of any status: res => res.json()
ProfileFetchResponds(i, ok) ==
    /\ upFetches[i].status = "fetching"
    /\ upFetches' = [upFetches EXCEPT ![i].status = "parsing", ![i].ok = ok]
    /\ UNCHANGED <<upUserId, user>>
    /\ UNCHANGED phase
    /\ UNCHANGED upRest

\* res.json() resolves: setUser with the parsed body, whatever the status was
ProfileJsonResolves(i) ==
    /\ upFetches[i].status = "parsing"
    /\ upFetches' = [upFetches EXCEPT ![i].status = "resolved"]
    /\ user' = SetUser(user, IF upFetches[i].ok
                               THEN Data(upFetches[i].userId)
                               ELSE Err("http"))
    /\ UNCHANGED upUserId
    /\ UNCHANGED phase
    /\ UNCHANGED upRest

\* res.json() rejects: the chain has no catch, the rejection is unhandled
ProfileJsonRejects(i) ==
    /\ upFetches[i].status = "parsing"
    /\ upFetches' = [upFetches EXCEPT ![i].status = "unhandled"]
    /\ UNCHANGED <<upUserId, user>>
    /\ UNCHANGED phase
    /\ UNCHANGED upRest

UserProfileUnmount ==
    /\ Mounted("UserProfile")
    /\ phase' = [phase EXCEPT !["UserProfile"] = "unmounted"]
    /\ UNCHANGED upVars
    /\ UNCHANGED upRest

\* outcomes of the network call made by fetchUserData
Outcomes == {"ok", "network", "http", "parse"}

\* fetchUserData(userId): the data, or null from the catch block
FetchUserData(uid, outcome) ==
    IF outcome = "ok" THEN Data(uid) ELSE Null

\* ======================================================== Counter

\* one queued state update applied to the state c
ApplyUpdate(c, u) == IF u.op = "fn" THEN c + u.n ELSE u.n

\* the re-render applies the queued updates in order
RECURSIVE ApplyUpdates(_, _)
ApplyUpdates(c, q) ==
    IF q = <<>> THEN c
    ELSE ApplyUpdates(ApplyUpdate(c, Head(q)), Tail(q))

CounterMount ==
    /\ NothingRendered
    /\ phase' = [phase EXCEPT !["Counter"] = "mounted"]
    /\ UNCHANGED ctVars
    /\ UNCHANGED ctRest

\* mutant: setCount(count + 1) with the count of the last render
IncrementStale ==
    /\ Mounted("Counter")
    /\ clicks[1] + clicks[2] < MaxClicks
    /\ updateQueue' = Append(updateQueue, [op |-> "set", n |-> count + 1])
    /\ clicks' = <<clicks[1] + 1, clicks[2]>>
    /\ UNCHANGED <<count, lastBatch>>
    /\ UNCHANGED phase
    /\ UNCHANGED ctRest

\* increment: setCount(prevCount => prevCount + 1)
Increment ==
    /\ Mounted("Counter")
    /\ clicks[1] + clicks[2] < MaxClicks
    /\ updateQueue' = Append(updateQueue, [op |-> "fn", n |-> 1])
    /\ clicks' = <<clicks[1] + 1, clicks[2]>>
    /\ UNCHANGED <<count, lastBatch>>
    /\ UNCHANGED phase
    /\ UNCHANGED ctRest

\* decrement: setCount(prevCount => prevCount - 1)
Decrement ==
    /\ Mounted("Counter")
    /\ clicks[1] + clicks[2] < MaxClicks
    /\ updateQueue' = Append(updateQueue, [op |-> "fn", n |-> -1])
    /\ clicks' = <<clicks[1], clicks[2] + 1>>
    /\ UNCHANGED <<count, lastBatch>>
    /\ UNCHANGED phase
    /\ UNCHANGED ctRest

\* the component re-renders: useState applies the queued updates
CounterRender ==
    /\ Mounted("Counter")
    /\ updateQueue # <<>>
    /\ count' = ApplyUpdates(count, updateQueue)
    /\ updateQueue' = <<>>
    /\ lastBatch' = Len(updateQueue)
    /\ UNCHANGED clicks
    /\ UNCHANGED phase
    /\ UNCHANGED ctRest

CounterUnmount ==
    /\ Mounted("Counter")
    /\ phase' = [phase EXCEPT !["Counter"] = "unmounted"]
    /\ UNCHANGED ctVars
    /\ UNCHANGED ctRest

\* ======================================================== createCounter

\* createCounter(): a new closure with its own count = 0
CreateCounter ==
    /\ NothingRendered \/ Mounted("createCounter")
    /\ Len(counters) < MaxCounters
    /\ phase' = [phase EXCEPT !["createCounter"] = "mounted"]
    /\ counters' = Append(counters, 0)
    /\ calls' = Append(calls, 0)
    /\ UNCHANGED ccRest

\* mutant: count is one module-level variable shared by all the closures
ClosureIncrementShared(k) ==
    /\ Mounted("createCounter")
    /\ calls[k] < MaxCalls
    /\ counters' = [j \in DOMAIN counters |-> counters[j] + 1]
    /\ calls' = [calls EXCEPT ![k] = @ + 1]
    /\ UNCHANGED phase
    /\ UNCHANGED ccRest

\* a call of the k-th closure: count++; console.log(count)
ClosureIncrement(k) ==
    /\ Mounted("createCounter")
    /\ calls[k] < MaxCalls
    /\ counters' = [counters EXCEPT ![k] = @ + 1]
    /\ calls' = [calls EXCEPT ![k] = @ + 1]
    /\ UNCHANGED phase
    /\ UNCHANGED ccRest

\* ======================================================== userId updaters

\* Next User pressed: the updater of handleNextUser applied to the current id
PressNextUser ==
    /\ idTrail # <<>>
    /\ Len(presses) < MaxPresses
    /\ idTrail' = Append(idTrail, NextUserId(Last(idTrail)))
    /\ presses' = Append(presses, "next")
    /\ UNCHANGED cyRest

\* Previous User pressed: the updater of handlePrevUser applied to the current id
PressPrevUser ==
    /\ idTrail # <<>>
    /\ Len(presses) < MaxPresses
    /\ idTrail' = Append(idTrail, PrevUserId(Last(idTrail)))
    /\ presses' = Append(presses, "prev")
    /\ UNCHANGED cyRest

\* the updaters are applied from every userId of 1..10
CycleInit ==
    /\ InitComponents
    /\ idTrail \in {<<u>> : u \in FirstUser..LastUser}
    /\ presses = <<>>

CycleNext == PressNextUser \/ PressPrevUser

CycleSpec == CycleInit /\ [][CycleNext]_vars

\* ======================================================== ThemeToggler

\* prevTheme => (prevTheme === 'light' ? 'dark' : 'light')
ToggledTheme(prevTheme) == IF prevTheme = "light" THEN "dark" ELSE "light"

\* one queued state update applied to the state t
ApplyThemeUpdate(t, u) == IF u.op = "fn" THEN ToggledTheme(t) ELSE u.v

\* the re-render applies the queued updates in order
RECURSIVE ApplyThemeUpdates(_, _)
ApplyThemeUpdates(t, q) ==
    IF q = <<>> THEN t
    ELSE ApplyThemeUpdates(ApplyThemeUpdate(t, Head(q)), Tail(q))

\* useContext(ThemeContext) in ThemedButton: the value of the nearest Provider
UseContext(value) == value

\* the first render: the Provider gets theme, Toolbar and ThemedButton render
ThemeTogglerMount ==
    /\ NothingRendered
    /\ phase' = [phase EXCEPT !["ThemeToggler"] = "mounted"]
    /\ providerValue' = theme
    /\ buttonTheme' = UseContext(providerValue')
    /\ UNCHANGED <<theme, themeQueue, toggleClicks, themeBatch>>
    /\ UNCHANGED ttRest

\* mutant: setTheme(theme === 'light' ? 'dark' : 'light') with the theme of
\* the last render
ToggleThemeStale ==
    /\ Mounted("ThemeToggler")
    /\ toggleClicks < MaxToggles
    /\ themeQueue' = Append(themeQueue, [op |-> "set", v |-> ToggledTheme(theme)])
    /\ toggleClicks' = toggleClicks + 1
    /\ UNCHANGED <<theme, providerValue, buttonTheme, themeBatch>>
    /\ UNCHANGED phase
    /\ UNCHANGED ttRest

\* toggleTheme: setTheme(prevTheme => ...)
ToggleTheme ==
    /\ Mounted("ThemeToggler")
    /\ toggleClicks < MaxToggles
    /\ themeQueue' = Append(themeQueue, [op |-> "fn"])
    /\ toggleClicks' = toggleClicks + 1
    /\ UNCHANGED <<theme, providerValue, buttonTheme, themeBatch>>
    /\ UNCHANGED phase
    /\ UNCHANGED ttRest

\* the re-render: useState applies the queued updates, the Provider gets the
\* new theme and ThemedButton, a consumer of the context, renders with it
ThemeTogglerRender ==
    /\ Mounted("ThemeToggler")
    /\ themeQueue # <<>>
    /\ theme' = ApplyThemeUpdates(theme, themeQueue)
    /\ themeQueue' = <<>>
    /\ providerValue' = theme'
    /\ buttonTheme' = UseContext(providerValue')
    /\ themeBatch' = Len(themeQueue)
    /\ UNCHANGED toggleClicks
    /\ UNCHANGED phase
    /\ UNCHANGED ttRest

ThemeTogglerUnmount ==
    /\ Mounted("ThemeToggler")
    /\ phase' = [phase EXCEPT !["ThemeToggler"] = "unmounted"]
    /\ UNCHANGED ttVars
    /\ UNCHANGED ttRest


\* ======================================================== specification

Next ==
    \/ UserFetcherMount
    \/ HandleNextUser
    \/ HandlePrevUser
    \/ \E i \in DOMAIN attempts : FetchRejects(i)
    \/ \E i \in DOMAIN attempts : \E ok \in BOOLEAN : FetchResponds(i, ok)
    \/ \E i \in DOMAIN attempts : JsonResolves(i)
    \/ \E i \in DOMAIN attempts : JsonRejects(i)
    \/ UserFetcherUnmount
    \/ SearchInputMount
    \/ \E v \in Terms : OnChange(v)
    \/ \E t \in timers : TimerFires(t)
    \/ Tick
    \/ SearchInputUnmount
    \/ AutoCounterMount
    \/ StartCounter
    \/ \E id \in intervals : IntervalFires(id)
    \/ StopClick
    \/ ResetClick
    \/ AutoCounterUnmount
    \/ \E uid \in ProfileIds : UserProfileMount(uid)
    \/ \E uid \in ProfileIds : UserProfileSetUserId(uid)
    \/ \E i \in DOMAIN upFetches : ProfileFetchRejects(i)
    \/ \E i \in DOMAIN upFetches : \E ok \in BOOLEAN : ProfileFetchResponds(i, ok)
    \/ \E i \in DOMAIN upFetches : ProfileJsonResolves(i)
    \/ \E i \in DOMAIN upFetches : ProfileJsonRejects(i)
    \/ UserProfileUnmount
    \/ CounterMount
    \/ Increment
    \/ Decrement
    \/ CounterRender
    \/ CounterUnmount
    \/ CreateCounter
    \/ \E k \in DOMAIN counters : ClosureIncrement(k)
    \/ ThemeTogglerMount
    \/ ToggleTheme
    \/ ThemeTogglerRender
    \/ ThemeTogglerUnmount

Spec == Init /\ [][Next]_vars

\* the values typed in the behaviours checked for liveness
TypedTerms == {"", "a", "ab"}

\* SearchInput on its own, with the scheduling the browser guarantees: time
\* passes, and the callback of a timer that is due is run
SearchInputNext ==
    \/ SearchInputMount
    \/ \E v \in TypedTerms : OnChange(v)
    \/ \E t \in timers : TimerFires(t)
    \/ Tick
    \/ SearchInputUnmount

SearchInputSpec ==
    /\ Init
    /\ [][SearchInputNext]_vars
    /\ WF_vars(\E t \in timers : TimerFires(t))
    /\ WF_vars(Tick)


TypeOK ==
    /\ phase \in [Components -> {"init", "mounted", "unmounted"}]
    /\ userId \in FirstUser..LastUser
    /\ loading \in BOOLEAN
    /\ Len(attempts) <= MaxAttempts
    /\ searchTerm \in Terms
    /\ debouncedSearchTerm \in Terms
    /\ now \in 0..MaxTime


\* ======================================================== claims: UserFetcher

Completed(a) == a.status \in {"resolved", "failed"}
Latest(i) == i = Len(attempts)

\* attempt i reaches the given terminal status in this step
Completes(i, status) ==
    /\ ~Completed(attempts[i])
    /\ attempts'[i].status = status

\* C1: latest input wins regardless of completion order: once every started
\* attempt has completed successfully, the displayed userData is the result of
\* the attempt started last.
C1_LatestInputWins ==
    ( /\ Mounted("UserFetcher")
      /\ Len(attempts) >= 2
      /\ \A i \in DOMAIN attempts : attempts[i].status = "resolved" )
    => userData = Data(Last(attempts).userId)

\* C2: the successful completion of an attempt older than the most recently
\* started one leaves userData unchanged.
C2_StaleSuccessNotApplied ==
    [][\A i \in DOMAIN attempts :
          (Completes(i, "resolved") /\ ~Latest(i)) => userData' = userData]_vars

\* C4: once the cleanup of an attempt's effect has run (userId change or
\* unmount), nothing that attempt does changes userData, error or loading.
C4_NoUpdateAfterTeardown ==
    [][\A i \in DOMAIN attempts :
          (attempts[i].cleaned /\ attempts'[i].status # attempts[i].status)
          => UNCHANGED <<userData, error, loading>>]_vars

C7_StaleFailureNotSurfaced ==
    [][\A i \in DOMAIN attempts :
          (Completes(i, "failed") /\ ~Latest(i)) => error' = error]_vars

\* C8: the attempts whose results are applied to userData are applied in
\* strictly increasing order of creation.
C8_AppliedMonotonic ==
    \A j \in DOMAIN applied : \A k \in DOMAIN applied :
        j < k => applied[j] < applied[k]


\* ======================================================== claims: SearchInput

\* a pending timer expires in this step (it is not cancelled by an input
\* change or by the unmount)
Expired(t) ==
    /\ t \in timers
    /\ t \notin timers'
    /\ searchTerm' = searchTerm
    /\ phase' = phase

QuietPeriodReached == \E t \in timers : Expired(t)

\* C3 (as stated): every quiet period reached after an input change invokes
\* the search exactly once, with the input value current at that time.
C3_OncePerQuietPeriod ==
    [][(QuietPeriodReached /\ changes # <<>>)
         => searches' = Append(searches, <<now, searchTerm>>)]_vars

\* C3 (amended): every input change cancels the pending timer and starts a new
\* one; a quiet period reached invokes the search at most once, exactly when
\* the current input value is non-empty and differs from the last debounced
\* value, with the current input value; the value searched for was not
\* replaced during the quiet period.
C3_Debounce ==
    [][ /\ searchTerm' # searchTerm
           => timers' = {[due |-> now + Delay, term |-> searchTerm']}
        /\ QuietPeriodReached
           => searches' =
                IF searchTerm # "" /\ searchTerm # debouncedSearchTerm
                  THEN Append(searches, <<now, searchTerm>>)
                  ELSE searches
        /\ searches' # searches
           => changes = <<>> \/ Last(changes)[1] + Delay <= now ]_vars

\* C3 witness: "a" was replaced by another value before its quiet period
\* elapsed, and the one search performed is for the replacing value.
C3_Witness ==
    /\ Len(changes) >= 2
    /\ changes[2][1] < changes[1][1] + Delay
    /\ Len(searches) = 1
    /\ searches[1][2] = changes[2][2]

\* C5: the unmount of SearchInput cancels the pending timer: once unmounted no
\* timer is pending, debouncedSearchTerm is not updated and no search is made.
C5_TeardownCancelsTimer ==
    [][phase'["SearchInput"] = "unmounted"
         => /\ timers' = {}
            /\ debouncedSearchTerm' = debouncedSearchTerm
            /\ searches' = searches]_vars

\* C5 witness: SearchInput was unmounted before the quiet period of the last
\* change had elapsed.
C5_Witness ==
    /\ phase["SearchInput"] = "unmounted"
    /\ changes # <<>>
    /\ now < Last(changes)[1] + Delay

C9_Schedule ==
    /\ Mounted("SearchInput")
    /\ changes = << <<0, "a">>, <<100, "ab">>, <<700, "abc">> >>
    /\ now >= 1200
    /\ timers = {}

\* C9 (as stated): for the changes "a" at 0, "ab" at 100, "abc" at 700 and a
\* quiet period of 500ms the search is made exactly once, with "abc", at 1200.
C9_OneSearch ==
    C9_Schedule => searches = << <<1200, "abc">> >>

\* C9 (amended): for the changes "a" at 0, "ab" at 100, "abc" at 700 and a
\* quiet period of 500ms the search is made exactly twice: with "ab" at 600
\* (500ms after the change at 100) and with "abc" at 1200.
C9_TwoSearches ==
    C9_Schedule => searches = << <<600, "ab">>, <<1200, "abc">> >>

\* C9 witness: the schedule has run to its end.
C9_Witness == C9_Schedule /\ Len(searches) = 2

\* C10 (as stated): every creation of a resolution attempt, a search of
\* SearchInput or a fetchUser() call of UserFetcher, happens at the expiry of
\* a quiet-period timer.
C10_OnlyTimerCreatesAttempts ==
    [][(searches' # searches \/ Len(attempts') > Len(attempts))
         => QuietPeriodReached]_vars

\* C10 (amended): in SearchInput every search happens at the expiry of an
\* uncancelled timer, for the value that timer was started with, and never
\* directly on an input change or on mount.
C10_OnlyTimerSearches ==
    [][searches' # searches
         => \E t \in timers :
               /\ Expired(t)
               /\ t.due <= now
               /\ searches' = Append(searches, <<now, t.term>>)]_vars

\* C10 witness: a search was made at the very time a timer was due.
C10_Witness ==
    /\ searches # <<>>
    /\ changes # <<>>
    /\ Last(searches)[1] = Last(changes)[1] + Delay
    /\ Last(searches)[2] = Last(changes)[2]

LastChangeTime == IF changes = <<>> THEN 0 ELSE Last(changes)[1]

\* C24: when searchTerm stops changing for 500ms while SearchInput stays
\* mounted, debouncedSearchTerm eventually equals searchTerm; a search is made
\* only with a non-empty debouncedSearchTerm, and the term searched for is the
\* value searchTerm has held unchanged for at least 500ms.
C24_DebouncedEventually ==
    /\ [][searches' # searches
            => /\ debouncedSearchTerm' # ""
               /\ searches' = Append(searches, <<now, debouncedSearchTerm'>>)
               /\ changes # <<>>
               /\ Last(changes)[2] = debouncedSearchTerm'
               /\ searchTerm = debouncedSearchTerm'
               /\ searchTerm' = searchTerm
               /\ Last(changes)[1] + Delay <= now]_vars
    /\ \A k \in 0..MaxChanges :
          ( /\ Mounted("SearchInput")
            /\ Len(changes) = k
            /\ LastChangeTime + Delay <= MaxTime )
          ~> ( \/ debouncedSearchTerm = searchTerm
               \/ ~Mounted("SearchInput")
               \/ Len(changes) > k )

\* C24 witness: the second value typed was left unchanged for 500ms, became
\* the debounced value and was searched for at the end of its quiet period.
C24_Witness ==
    /\ Mounted("SearchInput")
    /\ Len(changes) = 2
    /\ searchTerm # ""
    /\ debouncedSearchTerm = searchTerm
    /\ timers = {}
    /\ now >= LastChangeTime + Delay
    /\ searches # <<>>
    /\ Last(searches) = <<LastChangeTime + Delay, searchTerm>>


\* C12: no attempt is retried automatically: a fetchUser() call is made only
\* by the mount or by a change of userId, one per such event, never by the
\* completion of an attempt; and SearchInput never makes more searches than it
\* received input changes.
C12_NoRetry ==
    [][ /\ Len(searches') <= Len(changes')
        /\ Len(attempts') # Len(attempts)
             => /\ Len(attempts') = Len(attempts) + 1
                /\ attempts = <<>> \/ userId' # userId
                /\ \A i \in DOMAIN attempts :
                      attempts'[i].status = attempts[i].status ]_vars

\* C12 witness: the only attempt failed and no other attempt was started.
C12_Witness ==
    /\ Mounted("UserFetcher")
    /\ Len(attempts) = 1
    /\ attempts[1].status = "failed"
    /\ error # Null

\* C15 (as stated): userData is null exactly until the first result is
\* applied; from then on it holds the most recently applied result.
C15_NeverRevertsToNull ==
    Mounted("UserFetcher") =>
       IF applied = <<>>
         THEN userData = Null
         ELSE userData = Data(attempts[Last(applied)].userId)

\* C15 (amended): userData is null until the first result is applied;
\* whenever it is not null it holds the most recently applied result; and it
\* reverts to null every time the fetch effect runs again.
C15_NullUntilAppliedOrReset ==
    /\ userData = Null
    /\ [][ /\ applied' = <<>> => userData' = Null
           /\ userData' # Null
                => userData' = Data(attempts'[Last(applied')].userId)
           /\ Len(attempts') > Len(attempts) => userData' = Null ]_vars

\* C15 witness: a result had been applied and a later run of the effect put
\* userData back to null.
C15_Witness ==
    /\ Mounted("UserFetcher")
    /\ applied # <<>>
    /\ userData = Null
    /\ Last(applied) < Len(attempts)

\* C21: every run of the fetch effect (the mount and every change of userId)
\* sets loading to true and resets userData and error to null in the step
\* that starts the new fetch, while that fetch is still in flight; so what was
\* shown for the previous userId is cleared when the id changes.
C21_EffectResets ==
    [][ /\ Len(attempts') > Len(attempts)
             => /\ loading' = TRUE
                /\ userData' = Null
                /\ error' = Null
                /\ Last(attempts').status = "fetching"
                /\ Last(attempts').userId = userId'
        /\ userId' # userId => Len(attempts') > Len(attempts) ]_vars

\* C21 witness: the fetch for the previous userId had failed and its error
\* was shown; the id changed and the new fetch is in flight with nothing shown.
C21_Witness ==
    /\ Mounted("UserFetcher")
    /\ Len(attempts) = 2
    /\ attempts[1].status = "failed"
    /\ attempts[2].status = "fetching"
    /\ userId = attempts[2].userId
    /\ loading
    /\ userData = Null
    /\ error = Null


\* C22: loading is true in every state in which the fetch for the current
\* userId has been started and has not yet completed.
C22_LoadingWhilePending ==
    ( /\ Mounted("UserFetcher")
      /\ attempts # <<>>
      /\ Last(attempts).userId = userId
      /\ ~Completed(Last(attempts)) )
    => loading


\* C23: userData and error are never both non-null, and whenever loading is
\* false exactly one of them is non-null.
C23_DataXorError ==
    Mounted("UserFetcher") =>
       /\ ~(userData # Null /\ error # Null)
       /\ ~loading => (userData # Null) # (error # Null)


AttemptStates == {"fetching", "parsing", "resolved", "failed"}

C20_UserIdInRange ==
    /\ userId = 1
    /\ [][ /\ userId' \in 1..10
           /\ userId' # userId
                => userId' \in {IF userId < 10 THEN userId + 1 ELSE 1,
                                IF userId > 1 THEN userId - 1 ELSE 10} ]_vars

\* C20 witness: Previous User wrapped from 1 to 10 and Next User wrapped back
\* from 10 to 1.
C20_Witness ==
    /\ Len(attempts) = 3
    /\ attempts[2].userId = 10
    /\ attempts[3].userId = 1
    /\ userId = 1

\* C25: Next User and Previous User are inverse permutations of 1..10: from
\* every userId of 1..10 each press yields a userId of 1..10, a press of one
\* button followed by a press of the other returns the userId held before the
\* two presses, and ten consecutive presses of the same button return the
\* userId held before the ten presses.
C25_InversePermutations ==
    LET n == Len(presses) IN
    /\ \A k \in DOMAIN idTrail : idTrail[k] \in 1..10
    /\ (n >= 2 /\ presses[n - 1] # presses[n])
         => idTrail[n + 1] = idTrail[n - 1]
    /\ (n >= 10 /\ \A k \in (n - 9)..n : presses[k] = presses[n])
         => idTrail[n + 1] = idTrail[n - 9]

\* C25 witness: ten presses of Next User from userId 4, through the wrap from
\* 10 to 1, are back at 4.
C25_Witness ==
    /\ Len(presses) = 10
    /\ \A k \in DOMAIN presses : presses[k] = "next"
    /\ idTrail[1] = 4
    /\ idTrail[8] = 1
    /\ idTrail[11] = 4


\* ======================================================== claims: AutoCounter

\* a stopCounter() call is made in this step
StopCalled == Len(stopCalls') = Len(stopCalls) + 1

\* C14: teardown is idempotent and total: after a stopCounter() call (Stop
\* click or unmount) no interval is active and the ref is null, and a call
\* made when nothing is running changes nothing.
C14_TeardownIdempotent ==
    [][ /\ phase'["AutoCounter"] = "unmounted" => intervals' = {}
        /\ StopCalled
             => /\ intervals' = {}
                /\ intervalIdRef' = NoInterval
                /\ intervalIdRef = NoInterval
                     => UNCHANGED <<acCount, intervals, intervalIdRef,
                                    intervalsMade>> ]_vars

\* C14 witness: the counter was started and stopped, and stopCounter() was
\* then called a second time, by the unmount, with nothing running.
C14_Witness ==
    /\ phase["AutoCounter"] = "unmounted"
    /\ intervalsMade >= 1
    /\ Len(stopCalls) >= 2
    /\ stopCalls[Len(stopCalls) - 1] = TRUE
    /\ Last(stopCalls) = FALSE
    /\ intervals = {}

\* ======================================================== claims: fetch routines

\* C16: resolver failures are reported as data and never escape as uncaught
\* faults: a failed fetchUser() leaves the failure in error, fetchUserData
\* returns null for every failing outcome, and no fetch chain ends in an
\* unhandled rejection.
C16_FailuresAreData ==
    /\ (Mounted("UserFetcher") /\ attempts # <<>>
          /\ Last(attempts).status = "failed") => error # Null
    /\ \A uid \in ProfileIds : \A o \in Outcomes \ {"ok"} :
          FetchUserData(uid, o) = Null
    /\ \A i \in DOMAIN upFetches : upFetches[i].status # "unhandled"

\* ======================================================== claims: counters

\* C18: Counter never loses an update: after any sequence of Increment and
\* Decrement clicks, also when several clicks are handled before the
\* component re-renders, count is the number of increments minus the number
\* of decrements once the pending updates are applied.
C18_NoLostUpdate ==
    Mounted("Counter") =>
       /\ updateQueue = <<>> => count = clicks[1] - clicks[2]
       /\ ApplyUpdates(count, updateQueue) = clicks[1] - clicks[2]

\* C18 witness: three clicks, two of them Increment, were applied by one
\* re-render.
C18_Witness ==
    /\ Mounted("Counter")
    /\ updateQueue = <<>>
    /\ lastBatch = 3
    /\ clicks = <<2, 1>>
    /\ count = 1

\* C19: counters created by separate createCounter() calls are independent:
\* a call of one closure changes only its own count, so the n-th call of any
\* closure yields n whatever calls were made on the others.
C19_IndependentCounters ==
    [][ /\ \A k \in DOMAIN counters' : counters'[k] = calls'[k]
        /\ \A k \in DOMAIN counters :
              calls'[k] = calls[k] => counters'[k] = counters[k] ]_vars

\* C19 witness: counter1 was called twice and counter2 once.
C19_Witness ==
    /\ Len(counters) = 2
    /\ counters = <<2, 1>>
    /\ calls = <<2, 1>>

\* ======================================================== claims: ThemeToggler

\* C26: theme is always 'light' or 'dark' and starts as 'light'; every Toggle
\* Theme click switches it to the other value, also when several clicks are
\* handled before the component re-renders, so that an even number of clicks
\* restores 'light'; and the theme ThemedButton reads through ThemeContext
\* equals ThemeToggler's theme state.
C26_ThemeConsistent ==
    /\ theme \in {"light", "dark"}
    /\ toggleClicks = 0 => theme = "light"
    /\ ApplyThemeUpdates(theme, themeQueue) =
          IF toggleClicks % 2 = 0 THEN "light" ELSE "dark"
    /\ Mounted("ThemeToggler") =>
          /\ providerValue = theme
          /\ buttonTheme = theme

\* C26 witness: after one toggle had made the theme dark, two more clicks were
\* applied by one re-render and ThemedButton reads dark again.
C26_Witness ==
    /\ Mounted("ThemeToggler")
    /\ toggleClicks = 3
    /\ themeBatch = 2
    /\ themeQueue = <<>>
    /\ theme = "dark"
    /\ buttonTheme = "dark"

=============================================================================
